---- MODULE Spec2Model ----
(***************************************************************************)
(* Model of packages/api/lambdas/write-db-dlq-records-to-s3.js: the        *)
(* dead-letter enrichment (hoistCumulusMessageDetails) and the batch        *)
(* archival lambda (handler).                                               *)
(***************************************************************************)
EXTENDS Integers, Sequences, FiniteSets, TLC

(***************************************************************************)
(* JavaScript values.  Every value carries its type tag, so that null,     *)
(* undefined, strings, arrays, objects and JSON texts stay distinct.       *)
(***************************************************************************)
Undefined == [t |-> "undefined"]

Null == [t |-> "null"]

Str(s) == [t |-> "str", v |-> s]

Arr(s) == [t |-> "arr", v |-> s]

Obj(f) == [t |-> "obj", v |-> f]

\* a string holding the JSON text of value x
Json(x) == [t |-> "json", v |-> x]

\* JS truthiness: undefined, null and the empty string are falsy
Truthy(v) == /\ v.t \notin {"undefined", "null"}
             /\ ~(v.t = "str" /\ v.v = "")

\* the idiom  x || null
OrNull(v) == IF Truthy(v) THEN v ELSE Null

\* the idiom  o?.k  (and lodash get): undefined when o has no such property
Get(o, k) == IF o.t = "obj" /\ k \in DOMAIN o.v THEN o.v[k] ELSE Undefined

\* the operator  k in o , guarded by  o instanceof Object
HasKey(o, k) == o.t = "obj" /\ k \in DOMAIN o.v

\* a value inside a template literal
Template(v) ==
  CASE v.t = "str" -> v.v
    [] v.t = "undefined" -> "undefined"
    [] v.t = "null" -> "null"
    [] OTHER -> "[object Object]"

\* JSON.parse of a JSON text
JSONParse(j) == IF j.t = "json" THEN j.v ELSE Undefined

\* JSON.stringify: properties whose value is undefined are dropped, an
\* undefined array element becomes null
RECURSIVE Serialize(_)
Serialize(x) ==
  CASE x.t = "obj" ->
         Obj([k \in {q \in DOMAIN x.v : x.v[q].t # "undefined"} |-> Serialize(x.v[k])])
    [] x.t = "arr" ->
         Arr([i \in DOMAIN x.v |-> IF x.v[i].t = "undefined" THEN Null ELSE Serialize(x.v[i])])
    [] OTHER -> x

JSONStringify(x) == Json(Serialize(x))

(***************************************************************************)
(* Collaborators imported from other packages (lines 10-16).               *)
(***************************************************************************)
isSQSRecordLike(x) == HasKey(x, "body") \/ HasKey(x, "Body")

isDLQRecordLike(x) == isSQSRecordLike(x) /\ HasKey(x, "error")

parseSQSMessageBody(x) ==
  JSONParse(IF HasKey(x, "Body") THEN Get(x, "Body") ELSE Get(x, "body"))

isEventBridgeEvent(x) == HasKey(x, "detail")

constructCollectionId(name, version) == Str(name.v \o "___" \o version.v)

isMessageWithProvider(m) == Get(Get(m, "meta"), "provider").t = "obj"

getMessageProviderId(m) == Get(Get(Get(m, "meta"), "provider"), "id")

(***************************************************************************)
(* Metadata extraction (lines 33-63).                                      *)
(***************************************************************************)
payloadHasGranules(payload) ==
  /\ payload.t = "obj"
  /\ HasKey(payload, "granules")
  /\ Get(payload, "granules").t = "arr"

\* variant: a collection name alone is enough
extractCollectionId_nameOnly(message) ==
  LET collectionName == OrNull(Get(Get(Get(message, "meta"), "collection"), "name"))
      collectionVersion == OrNull(Get(Get(Get(message, "meta"), "collection"), "version"))
  IN IF Truthy(collectionName)
     THEN constructCollectionId(collectionName, Str(Template(collectionVersion)))
     ELSE Null

extractCollectionId(message) ==
  LET collectionName == OrNull(Get(Get(Get(message, "meta"), "collection"), "name"))
      collectionVersion == OrNull(Get(Get(Get(message, "meta"), "collection"), "version"))
  IN IF Truthy(collectionName) /\ Truthy(collectionVersion)
     THEN constructCollectionId(collectionName, collectionVersion)
     ELSE Null

\* variant: a payload without a granules list gives an empty list
extractGranules_emptyList(message) ==
  LET payload == Get(message, "payload")
  IN IF payloadHasGranules(payload)
     THEN LET gs == Get(payload, "granules").v
          IN Arr([i \in DOMAIN gs |-> OrNull(Get(gs[i], "granuleId"))])
     ELSE Arr(<<>>)

extractGranules(message) ==
  LET payload == Get(message, "payload")
  IN IF payloadHasGranules(payload)
     THEN LET gs == Get(payload, "granules").v
          IN Arr([i \in DOMAIN gs |-> OrNull(Get(gs[i], "granuleId"))])
     ELSE Null

(***************************************************************************)
(* hoistCumulusMessageDetails (lines 83-139).                              *)
(***************************************************************************)
\* variant: every failure record overwrites the captured error
RECURSIVE unwrapLoop_lastError(_, _)
unwrapLoop_lastError(messageBody, error) ==
  IF isSQSRecordLike(messageBody)
  THEN unwrapLoop_lastError(parseSQSMessageBody(messageBody),
                            IF isDLQRecordLike(messageBody)
                            THEN OrNull(Get(messageBody, "error"))
                            ELSE error)
  ELSE [messageBody |-> messageBody, error |-> error]

\* the de-nesting loop, lines 94-103: the innermost payload and the error
RECURSIVE unwrapLoop(_, _)
unwrapLoop(messageBody, error) ==
  IF isSQSRecordLike(messageBody)
  THEN unwrapLoop(parseSQSMessageBody(messageBody),
                  IF isDLQRecordLike(messageBody) /\ ~Truthy(error)
                  THEN OrNull(Get(messageBody, "error"))
                  ELSE error)
  ELSE [messageBody |-> messageBody, error |-> error]

\* variant: the resolver is called whatever the payload is
hoistLocals_alwaysResolve(dlqRecord) ==
  LET u == unwrapLoop(dlqRecord, Null)
      detail == Get(u.messageBody, "detail")
  IN [error |-> u.error,
      executionArn |-> OrNull(Get(detail, "executionArn")),
      stateMachineArn |-> OrNull(Get(detail, "stateMachineArn")),
      status |-> OrNull(Get(detail, "status")),
      time |-> OrNull(Get(u.messageBody, "time")),
      messageBody |-> u.messageBody,
      awaiting |-> TRUE]

\* the locals of hoistCumulusMessageDetails after lines 84-109, up to the
\* resolver call: awaiting says whether the resolver has been called
hoistLocals(dlqRecord) ==
  LET u == unwrapLoop(dlqRecord, Null)
      detail == Get(u.messageBody, "detail")
  IN IF isEventBridgeEvent(u.messageBody)
     THEN [error |-> u.error,
           executionArn |-> OrNull(Get(detail, "executionArn")),
           stateMachineArn |-> OrNull(Get(detail, "stateMachineArn")),
           status |-> OrNull(Get(detail, "status")),
           time |-> OrNull(Get(u.messageBody, "time")),
           messageBody |-> u.messageBody,
           awaiting |-> TRUE]
     ELSE [error |-> u.error,
           executionArn |-> Null,
           stateMachineArn |-> Null,
           status |-> Null,
           time |-> Null,
           messageBody |-> u.messageBody,
           awaiting |-> FALSE]

\* an outcome of getCumulusMessageFromExecutionEvent
Threw == [threw |-> TRUE, value |-> Undefined]

Returned(m) == [threw |-> FALSE, value |-> m]

\* a resolver call that has not settled, or was never made
Pending == [threw |-> FALSE, value |-> Str("pending")]

\* lines 110-116: what cumulusMessage holds after the try/catch
caughtMessage(outcome) == IF outcome.threw THEN Undefined ELSE outcome.value

\* variant: a field that is null is left out of the returned object
hoistedRecord_omitNull(dlqRecord, collectionId, providerId, granules, l) ==
  LET all == ("collectionId" :> collectionId)
             @@ ("providerId" :> providerId)
             @@ ("granules" :> granules)
             @@ ("executionArn" :> l.executionArn)
             @@ ("stateMachineArn" :> l.stateMachineArn)
             @@ ("status" :> l.status)
             @@ ("time" :> l.time)
             @@ ("error" :> l.error)
  IN Obj([k \in {q \in DOMAIN all : all[q] # Null} |-> all[k]] @@ dlqRecord.v)

\* variant: the original fields are spread last
hoistedRecord_originalWins(dlqRecord, collectionId, providerId, granules, l) ==
  Obj(dlqRecord.v
      @@ ("collectionId" :> collectionId)
      @@ ("providerId" :> providerId)
      @@ ("granules" :> granules)
      @@ ("executionArn" :> l.executionArn)
      @@ ("stateMachineArn" :> l.stateMachineArn)
      @@ ("status" :> l.status)
      @@ ("time" :> l.time)
      @@ ("error" :> l.error))

\* lines 128-138: the returned object, the original fields overridden by
\* the eight hoisted ones
hoistedRecord(dlqRecord, collectionId, providerId, granules, l) ==
  Obj(("collectionId" :> collectionId)
      @@ ("providerId" :> providerId)
      @@ ("granules" :> granules)
      @@ ("executionArn" :> l.executionArn)
      @@ ("stateMachineArn" :> l.stateMachineArn)
      @@ ("status" :> l.status)
      @@ ("time" :> l.time)
      @@ ("error" :> l.error)
      @@ dlqRecord.v)

\* variant: a provider that is a bare string is taken as the identifier
providerIdOf_lenient(cumulusMessage) ==
  IF isMessageWithProvider(cumulusMessage)
  THEN OrNull(getMessageProviderId(cumulusMessage))
  ELSE OrNull(Get(Get(cumulusMessage, "meta"), "provider"))

\* lines 120-122: the provider identifier of a resolved message
providerIdOf(cumulusMessage) ==
  IF isMessageWithProvider(cumulusMessage)
  THEN OrNull(getMessageProviderId(cumulusMessage))
  ELSE Null

\* lines 117-121: the calls of getMessageProviderId made for cumulusMessage
providerGetterCalls(cumulusMessage) ==
  IF Truthy(cumulusMessage) /\ isMessageWithProvider(cumulusMessage) THEN 1 ELSE 0

\* variant: a failed resolver also discards what was read from the event
hoistAfterResolver_dropsEvent(dlqRecord, l, outcome) ==
  LET cumulusMessage == caughtMessage(outcome)
  IN IF Truthy(cumulusMessage)
     THEN hoistedRecord(dlqRecord,
                        extractCollectionId(cumulusMessage),
                        providerIdOf(cumulusMessage),
                        extractGranules(cumulusMessage),
                        l)
     ELSE hoistedRecord(dlqRecord, Null, Null, Null,
                        [l EXCEPT !.executionArn = Null, !.stateMachineArn = Null,
                                  !.status = Null, !.time = Null])

\* lines 117-138 for a recognized event whose resolver call has settled
hoistAfterResolver(dlqRecord, l, outcome) ==
  LET cumulusMessage == caughtMessage(outcome)
  IN IF Truthy(cumulusMessage)
     THEN hoistedRecord(dlqRecord,
                        extractCollectionId(cumulusMessage),
                        providerIdOf(cumulusMessage),
                        extractGranules(cumulusMessage),
                        l)
     ELSE hoistedRecord(dlqRecord, Null, Null, Null, l)

\* lines 124-138 for a payload that is not an execution event
hoistUnrecognized(dlqRecord, l) == hoistedRecord(dlqRecord, Null, Null, Null, l)

(***************************************************************************)
(* Inputs.                                                                 *)
(***************************************************************************)
\* deepest nesting of queue records in an input of hoistCumulusMessageDetails
MaxDepth == 2

\* largest number of records in the batch of one invocation
MaxBatch == 3

\* innermost payloads: a complete execution event, an execution event with
\* neither arns nor time, and an object that is no execution event
EventFull ==
  Obj(("detail" :> Obj(("executionArn" :> Str("arn:exec1"))
                       @@ ("stateMachineArn" :> Str("arn:sm1"))
                       @@ ("status" :> Str("FAILED"))))
      @@ ("time" :> Str("2024-02-29T23:59:59Z")))

EventBare == Obj("detail" :> Obj("status" :> Str("RUNNING")))

NotEvent == Obj("foo" :> Str("bar"))

Payloads == {EventFull, EventBare, NotEvent}

\* the error property of one layer: absent, null, or a message
ErrorOptions == {Undefined, Null, Str("e1"), Str("e2")}

\* a queue record around inner, its body the JSON text of inner
Envelope(inner, err) ==
  Obj(("messageId" :> Str("m1"))
      @@ ("body" :> JSONStringify(inner))
      @@ (IF err = Undefined THEN <<>> ELSE ("error" :> err)))

\* payloads wrapped in at most n queue records
RECURSIVE Nested(_)
Nested(n) ==
  IF n = 0 THEN Payloads
  ELSE LET inner == Nested(n - 1)
       IN inner \cup {Envelope(x, e) : x \in inner, e \in ErrorOptions}

\* messages the resolver can return
MsgFull ==
  Obj(("meta" :> Obj(("collection" :> Obj(("name" :> Str("MOD09"))
                                          @@ ("version" :> Str("006"))))
                     @@ ("provider" :> Obj("id" :> Str("prov1")))))
      @@ ("payload" :> Obj("granules" :> Arr(<<Obj("granuleId" :> Str("G1")),
                                               Obj(<<>>)>>))))

MsgNameOnly ==
  Obj(("meta" :> Obj("collection" :> Obj("name" :> Str("MOD09"))))
      @@ ("payload" :> Obj(<<>>)))

MsgVersionOnly ==
  Obj(("meta" :> Obj(("collection" :> Obj("version" :> Str("006")))
                     @@ ("provider" :> Obj("id" :> Str("prov2")))))
      @@ ("payload" :> Obj("granules" :> Arr(<<>>))))

\* granules that is no list, a provider that is a bare string
MsgOddShapes ==
  Obj(("meta" :> Obj(("collection" :> Obj(("name" :> Str("MYD13"))
                                          @@ ("version" :> Str("061"))))
                     @@ ("provider" :> Str("prov3"))))
      @@ ("payload" :> Obj("granules" :> Str("G1"))))

\* a list with an element that is null and one with its granuleId
MsgNullGranule ==
  Obj(("meta" :> Obj(<<>>))
      @@ ("payload" :> Obj("granules" :> Arr(<<Null, Obj("granuleId" :> Str("G2"))>>))))

Messages == {MsgFull, MsgNameOnly, MsgVersionOnly, MsgOddShapes, MsgNullGranule}

\* outcomes of the resolver for a direct call of hoistCumulusMessageDetails
ResolverOutcomes == {Threw, Returned(Undefined)} \cup {Returned(m) : m \in Messages}

\* outcomes of the resolver inside a batch
BatchOutcomes == {Threw, Returned(MsgFull)}

\* a record that is no queue record though it has fields named like the
\* hoisted ones
OpaqueRecord ==
  Obj(("foo" :> Str("bar"))
      @@ ("executionArn" :> Str("arn:exec1"))
      @@ ("time" :> Str("2024-02-29T23:59:59Z")))

\* records of a batch: execution event in a failure record, unrecognized
\* payload, doubly wrapped bare event, and a record that is no queue record
BatchRecords ==
  <<Envelope(EventFull, Str("e1")),
    Envelope(NotEvent, Undefined),
    Envelope(Envelope(EventBare, Str("e2")), Null),
    OpaqueRecord>>

\* the batches of at most n records.  handler treats the positions of a
\* batch alike (every record is mapped the same way and Promise.all does not
\* depend on positions), so batches are taken up to reordering
Batches(n) ==
  UNION {{[i \in 1..k |-> BatchRecords[f[i]]] :
            f \in {g \in [1..k -> DOMAIN BatchRecords] :
                     \A i \in 1..k : \A j \in i..k : g[i] <= g[j]}} : k \in 0..n}

\* the events handler is invoked with: with or without a Records property
Events == {Obj(<<>>)} \cup {Obj("Records" :> Arr(b)) : b \in Batches(MaxBatch)}

\* process.env: each variable set or not
Environments ==
  {[system_bucket |-> b, stackName |-> n] :
     b \in {Undefined, Str("bucket")}, n \in {Undefined, Str("stack")}}

\* the wall clock read by moment.utc()
Clocks == {Str("2024-03-01T00:00:01Z")}

(***************************************************************************)
(* State.                                                                  *)
(***************************************************************************)
VARIABLES
  env,            \* process.env
  event,          \* the event of the current invocation
  now,            \* the wall clock
  handlerState,   \* "idle", "running", "resolved", "rejected"
  handlerError,   \* "none", "config", "write": what handler threw
  pipes,          \* per record of the batch: pc, massagedMessage, Key
  resolverCalls,  \* per record: calls of getCumulusMessageFromExecutionEvent
  putCalls,       \* per record: calls of s3PutObject
  outcomes,       \* per record: how its resolver call settled
  store,          \* the bucket: a set of [Key, Body]
  uuidCounter,    \* number of uuidv4() calls so far
  hIn,            \* argument of a direct hoistCumulusMessageDetails call
  hPc,            \* "idle", "resolving", "returned"
  hOut,           \* its result
  hCalls,         \* its calls of getCumulusMessageFromExecutionEvent
  hOutcome,       \* how its resolver call settled
  hGetterCalls    \* its calls of getMessageProviderId

handlerVars ==
  <<env, event, now, handlerState, handlerError, pipes, resolverCalls,
    putCalls, outcomes, store, uuidCounter>>

hoistVars == <<hIn, hPc, hOut, hCalls, hOutcome, hGetterCalls>>

vars == <<handlerVars, hoistVars>>

(***************************************************************************)
(* handler (lines 147-172).                                                *)
(***************************************************************************)
\* line 150: get(event, 'Records', [])
sqsMessages(ev) == IF HasKey(ev, "Records") THEN Get(ev, "Records").v ELSE <<>>

\* moment.utc(t).format('YYYY-MM-DD')
formatDate(t) ==
  CASE t.v = "2024-02-29T23:59:59Z" -> "2024-02-29"
    [] t.v = "2024-03-01T00:00:01Z" -> "2024-03-01"
    [] OTHER -> "Invalid date"

\* the n-th token of uuidv4()
uuidv4(n) == "uuid" \o ToString(n)

\* variant: the date is always the processing date
archiveKey_clockOnly(stackName, massagedMessage, execution, uuid, clock) ==
  LET executionName == IF Truthy(execution) THEN Template(execution) ELSE "unknown"
      s3Identifier == executionName \o "-" \o uuid
  IN Str(Template(stackName) \o "/dead-letter-archive/sqs/" \o formatDate(clock) \o "/"
         \o s3Identifier \o ".json")

\* variant: the key carries no unique token
archiveKey_noUuid(stackName, massagedMessage, execution, uuid, clock) ==
  LET executionName == IF Truthy(execution) THEN Template(execution) ELSE "unknown"
      time == Get(massagedMessage, "time")
      dateString == IF Truthy(time) THEN formatDate(time) ELSE formatDate(clock)
  IN Str(Template(stackName) \o "/dead-letter-archive/sqs/" \o dateString \o "/"
         \o executionName \o ".json")

\* lines 161-168: the object key
archiveKey(stackName, massagedMessage, execution, uuid, clock) ==
  LET executionName == IF Truthy(execution) THEN Template(execution) ELSE "unknown"
      s3Identifier == executionName \o "-" \o uuid
      time == Get(massagedMessage, "time")
      dateString == IF Truthy(time) THEN formatDate(time) ELSE formatDate(clock)
  IN Str(Template(stackName) \o "/dead-letter-archive/sqs/" \o dateString \o "/"
         \o s3Identifier \o ".json")

\* lines 166-170: the argument of s3PutObject
putRequest(e, massagedMessage, execution, uuid, clock) ==
  [Bucket |-> e.system_bucket,
   Key |-> archiveKey(e.stackName, massagedMessage, execution, uuid, clock),
   Body |-> JSONStringify(massagedMessage)]

NoRequest == [Bucket |-> Undefined, Key |-> Undefined, Body |-> Undefined]

\* s3PutObject on success: the object replaces any object of the same key
s3PutObject(bucket, req) ==
  {o \in bucket : ~(o.Bucket = req.Bucket /\ o.Key = req.Key)} \cup {req}

\* a record of the batch: not a queue record (lines 157-160), a queue record
\* whose payload is no execution event, or one whose resolver is called
isOpaque(r) == ~isSQSRecordLike(r)

isMiss(r) == isSQSRecordLike(r) /\ ~hoistLocals(r).awaiting

\* variant: the resolver is called for every queue record
isEvent_noClassify(r) == isSQSRecordLike(r)

isEvent(r) == isSQSRecordLike(r) /\ hoistLocals(r).awaiting

\* variant: one token is generated for the whole batch
syncRank_shared(rs, i) == 1

\* the order of the uuidv4() calls made before handler first yields to I/O:
\* records that are no queue records during the map, then, as microtasks,
\* the queue records whose hoistCumulusMessageDetails made no resolver call
syncRank(rs, i) ==
  IF isOpaque(rs[i])
  THEN Cardinality({j \in 1..i : isOpaque(rs[j])})
  ELSE Cardinality({j \in 1..Len(rs) : isOpaque(rs[j])})
       + Cardinality({j \in 1..i : isMiss(rs[j])})

\* lines 152-160 for a record that makes no resolver call
massagedNow(r) == IF isOpaque(r) THEN r ELSE hoistUnrecognized(r, hoistLocals(r))

\* variant: the execution is read from the record whatever it is
executionNow_fromRecord(r) == Get(massagedNow(r), "executionArn")

executionNow(r) == IF isOpaque(r) THEN Null ELSE Get(massagedNow(r), "executionArn")

\* pipes holds the mapped functions of every invocation so far, the
\* current invocation's last: pipe p runs record recordOf(p) of the batch
batchSize == Len(sqsMessages(event))

base == Len(pipes) - batchSize

current == (base + 1)..Len(pipes)

recordOf(p) == sqsMessages(event)[((p - 1) % batchSize) + 1]

\* variant: a mapped function still waiting for its lookup is not waited for
allWritten_ignoresResolving(ps) ==
  \A p \in current : ps[p].pc \in {"resolving", "written"}

\* variant: the writes are not awaited
allWritten_notAwaited(ps) == \A p \in current : ps[p].pc \in {"writing", "written"}

allWritten(ps) == \A p \in current : ps[p].pc = "written"

\* variant: only the bucket is required
configMissing_bucketOnly(e) == ~Truthy(e.system_bucket)

\* lines 148-149: a missing environment variable
configMissing(e) == ~Truthy(e.system_bucket) \/ ~Truthy(e.stackName)

\* lines 148-149: handler throws
HandlerConfigError ==
  /\ handlerState = "idle"
  /\ configMissing(env)
  /\ handlerState' = "rejected"
  /\ handlerError' = "config"
  /\ UNCHANGED <<env, event, now, pipes, resolverCalls, putCalls, outcomes,
                 store, uuidCounter, hoistVars>>

\* variant: completion is only ever signalled by a mapped function
launched_waits(n) == "running"

\* line 151: Promise.all of no promises is fulfilled at once
launched(n) == IF n = 0 THEN "resolved" ELSE "running"

\* lines 150-171 up to the first suspension of every mapped function
HandlerLaunch ==
  /\ handlerState = "idle"
  /\ ~configMissing(env)
  /\ LET rs == sqsMessages(event)
         started == {i \in 1..Len(rs) : ~isEvent(rs[i])}
     IN /\ pipes' = [p \in DOMAIN pipes |->
                       IF p \notin current THEN pipes[p]
                       ELSE IF isEvent(recordOf(p))
                       THEN [pc |-> "resolving", request |-> NoRequest]
                       ELSE [pc |-> "writing",
                             request |-> putRequest(env, massagedNow(recordOf(p)),
                                           executionNow(recordOf(p)),
                                           uuidv4(uuidCounter + syncRank(rs, p - base)),
                                           now)]]
        /\ resolverCalls' = [p \in DOMAIN pipes |->
                               IF p \in current /\ isEvent(recordOf(p))
                               THEN resolverCalls[p] + 1
                               ELSE resolverCalls[p]]
        /\ putCalls' = [p \in DOMAIN pipes |->
                          IF p \in current /\ ~isEvent(recordOf(p))
                          THEN putCalls[p] + 1
                          ELSE putCalls[p]]
        /\ uuidCounter' = uuidCounter + Cardinality(started)
        /\ handlerState' = launched(Len(rs))
  /\ UNCHANGED <<env, event, now, handlerError, outcomes, store, hoistVars>>

\* lines 112-123, 128-138 and 156-170 of pipe p: the resolver settles,
\* hoistCumulusMessageDetails returns and the write is issued
ResolverSettle(p, outcome) ==
  /\ pipes[p].pc = "resolving"
  /\ LET r == recordOf(p)
         massagedMessage == hoistAfterResolver(r, hoistLocals(r), outcome)
         execution == Get(massagedMessage, "executionArn")
     IN pipes' = [pipes EXCEPT ![p] =
                    [pc |-> "writing",
                     request |-> putRequest(env, massagedMessage, execution,
                                            uuidv4(uuidCounter + 1), now)]]
  /\ uuidCounter' = uuidCounter + 1
  /\ putCalls' = [putCalls EXCEPT ![p] = @ + 1]
  /\ outcomes' = [outcomes EXCEPT ![p] = outcome]
  /\ UNCHANGED <<env, event, now, handlerState, handlerError, resolverCalls,
                 store, hoistVars>>

\* variant: fulfils with the first mapped function that fulfils
afterFulfil_first(p, ps) ==
  IF handlerState = "running" /\ p \in current THEN "resolved" ELSE handlerState

\* line 171: Promise.all fulfils when the last mapped function of the
\* running invocation has fulfilled
afterFulfil(p, ps) ==
  IF handlerState = "running" /\ p \in current /\ allWritten(ps)
  THEN "resolved" ELSE handlerState

\* variant: rejections of the mapped functions are swallowed
rejects_swallowed(p) == FALSE

\* line 171: Promise.all rejects with the first rejection of a mapped
\* function of the running invocation
rejects(p) == handlerState = "running" /\ p \in current

\* the write of pipe p succeeds
WriteSucceed(p) ==
  /\ pipes[p].pc = "writing"
  /\ store' = s3PutObject(store, pipes[p].request)
  /\ pipes' = [pipes EXCEPT ![p].pc = "written"]
  /\ handlerState' = afterFulfil(p, pipes')
  /\ UNCHANGED <<env, event, now, handlerError, resolverCalls, putCalls,
                 outcomes, uuidCounter, hoistVars>>

\* variant: a failed write removes what the invocation has written
WriteFail_rollback(p) ==
  /\ pipes[p].pc = "writing"
  /\ pipes' = [pipes EXCEPT ![p].pc = "writeFailed"]
  /\ handlerState' = IF rejects(p) THEN "rejected" ELSE handlerState
  /\ handlerError' = IF rejects(p) THEN "write" ELSE handlerError
  /\ store' = store \ {pipes[q].request : q \in current}
  /\ UNCHANGED <<env, event, now, resolverCalls, putCalls, outcomes, uuidCounter,
                 hoistVars>>

\* the write of pipe p fails
WriteFail(p) ==
  /\ pipes[p].pc = "writing"
  /\ pipes' = [pipes EXCEPT ![p].pc = "writeFailed"]
  /\ handlerState' = IF rejects(p) THEN "rejected" ELSE handlerState
  /\ handlerError' = IF rejects(p) THEN "write" ELSE handlerError
  /\ UNCHANGED <<env, event, now, resolverCalls, putCalls, outcomes, store,
                 uuidCounter, hoistVars>>

IdlePipes(ev) == [i \in 1..Len(sqsMessages(ev)) |-> [pc |-> "idle", request |-> NoRequest]]

ZeroCalls(ev) == [i \in 1..Len(sqsMessages(ev)) |-> 0]

NoOutcomes(ev) == [i \in 1..Len(sqsMessages(ev)) |-> Pending]

NoHoistCall ==
  /\ hIn = Undefined
  /\ hPc = "idle"
  /\ hOut = Undefined
  /\ hCalls = 0
  /\ hOutcome = Pending
  /\ hGetterCalls = 0

Init ==
  /\ env \in Environments
  /\ event \in Events
  /\ now \in Clocks
  /\ handlerState = "idle"
  /\ handlerError = "none"
  /\ pipes = IdlePipes(event)
  /\ resolverCalls = ZeroCalls(event)
  /\ putCalls = ZeroCalls(event)
  /\ outcomes = NoOutcomes(event)
  /\ store = {}
  /\ uuidCounter = 0
  /\ NoHoistCall

Next ==
  \/ HandlerConfigError
  \/ HandlerLaunch
  \/ \E i \in DOMAIN pipes : \E o \in BatchOutcomes : ResolverSettle(i, o)
  \/ \E i \in DOMAIN pipes : WriteSucceed(i)
  \/ \E i \in DOMAIN pipes : WriteFail(i)

Spec == Init /\ [][Next]_vars

(***************************************************************************)
(* Redelivery: the queue hands the batch of a failed invocation to         *)
(* handler again.  Mapped functions of the failed invocation that were     *)
(* still suspended keep running.                                           *)
(***************************************************************************)
\* largest number of invocations on one batch
MaxInvocations == 2

Reinvoke ==
  /\ handlerState = "rejected"
  /\ handlerError = "write"
  /\ Len(pipes) < MaxInvocations * batchSize
  /\ handlerState' = "idle"
  /\ handlerError' = "none"
  /\ pipes' = pipes \o IdlePipes(event)
  /\ resolverCalls' = resolverCalls \o ZeroCalls(event)
  /\ putCalls' = putCalls \o ZeroCalls(event)
  /\ outcomes' = outcomes \o NoOutcomes(event)
  /\ UNCHANGED <<env, event, now, store, uuidCounter, hoistVars>>

\* the redelivered batches: two identical records, an execution event with
\* an unrecognized payload, a record that is no queue record with an
\* execution event, and a single execution event
RetryBatches ==
  {<<Envelope(NotEvent, Undefined), Envelope(NotEvent, Undefined)>>,
   <<Envelope(EventFull, Str("e1")), Envelope(NotEvent, Undefined)>>,
   <<NotEvent, Envelope(EventFull, Str("e1"))>>,
   <<Envelope(EventFull, Str("e1"))>>}

RetryEvents == {Obj("Records" :> Arr(b)) : b \in RetryBatches}

InitRetry ==
  /\ env = [system_bucket |-> Str("bucket"), stackName |-> Str("stack")]
  /\ event \in RetryEvents
  /\ now \in Clocks
  /\ handlerState = "idle"
  /\ handlerError = "none"
  /\ pipes = IdlePipes(event)
  /\ resolverCalls = ZeroCalls(event)
  /\ putCalls = ZeroCalls(event)
  /\ outcomes = NoOutcomes(event)
  /\ store = {}
  /\ uuidCounter = 0
  /\ NoHoistCall

NextRetry ==
  \/ HandlerLaunch
  \/ \E p \in DOMAIN pipes : \E o \in BatchOutcomes : ResolverSettle(p, o)
  \/ \E p \in DOMAIN pipes : WriteSucceed(p)
  \/ \E p \in DOMAIN pipes : WriteFail(p)
  \/ Reinvoke

SpecRetry == InitRetry /\ [][NextRetry]_vars

(***************************************************************************)
(* A direct call of hoistCumulusMessageDetails.                            *)
(***************************************************************************)
\* lines 84-112 and, for an unrecognized payload, 124-138
HoistCall ==
  /\ hPc = "idle"
  /\ LET l == hoistLocals(hIn)
     IN IF l.awaiting
        THEN /\ hPc' = "resolving"
             /\ hCalls' = hCalls + 1
             /\ hOut' = hOut
        ELSE /\ hPc' = "returned"
             /\ hCalls' = hCalls
             /\ hOut' = hoistUnrecognized(hIn, l)
  /\ UNCHANGED <<hIn, hOutcome, hGetterCalls, handlerVars>>

\* lines 112-138 once the resolver has settled
HoistResolverSettle(outcome) ==
  /\ hPc = "resolving"
  /\ hPc' = "returned"
  /\ hOut' = hoistAfterResolver(hIn, hoistLocals(hIn), outcome)
  /\ hOutcome' = outcome
  /\ hGetterCalls' = hGetterCalls + providerGetterCalls(caughtMessage(outcome))
  /\ UNCHANGED <<hIn, hCalls, handlerVars>>

InitHoist ==
  /\ hIn \in Nested(MaxDepth)
  /\ hPc = "idle"
  /\ hOut = Undefined
  /\ hCalls = 0
  /\ hOutcome = Pending
  /\ hGetterCalls = 0
  /\ env = [system_bucket |-> Str("bucket"), stackName |-> Str("stack")]
  /\ event = Obj(<<>>)
  /\ now \in Clocks
  /\ handlerState = "idle"
  /\ handlerError = "none"
  /\ pipes = <<>>
  /\ resolverCalls = <<>>
  /\ putCalls = <<>>
  /\ outcomes = <<>>
  /\ store = {}
  /\ uuidCounter = 0

NextHoist ==
  \/ HoistCall
  \/ \E o \in ResolverOutcomes : HoistResolverSettle(o)

SpecHoist == InitHoist /\ [][NextHoist]_vars

(***************************************************************************)
(* Properties.                                                             *)
(***************************************************************************)
inFlight(p) == pipes[p].pc \in {"resolving", "writing"}

issued(p) == pipes[p].pc \in {"writing", "written", "writeFailed"}

document(p) == JSONParse(pipes[p].request.Body)

\* C1: when handler has completed successfully, every record of the batch
\* has had exactly one s3PutObject call and its object is in the store, one
\* object per record; a handler that completed otherwise has thrown.
C1_SuccessMeansAllArchived ==
  /\ handlerState = "resolved" =>
       /\ \A p \in DOMAIN pipes :
            /\ putCalls[p] = 1
            /\ pipes[p].pc = "written"
            /\ pipes[p].request \in store
       /\ Cardinality(store) = batchSize
  /\ handlerState = "rejected" => handlerError \in {"config", "write"}
  /\ handlerState \in {"idle", "running"} => handlerError = "none"

C1_Witness ==
  /\ handlerState = "resolved"
  /\ batchSize = 3
  /\ Cardinality(store) = 3
  /\ \E p \in DOMAIN pipes : outcomes[p] = Threw

\* C2: once the store write of any record of the batch has failed, handler
\* has reported failure with the write's exception, whatever the other
\* writes did before or after.
C2_WriteFailureFailsHandler ==
  (\E p \in DOMAIN pipes : pipes[p].pc = "writeFailed")
     => handlerState = "rejected" /\ handlerError = "write"

C2_Witness ==
  /\ handlerState = "rejected"
  /\ \E p, q \in DOMAIN pipes :
       /\ pipes[p].pc = "writeFailed"
       /\ pipes[q].pc = "written"
       /\ pipes[q].request \in store

eventOf(p) == unwrapLoop(recordOf(p), Null).messageBody

fromEvent(p) ==
  LET ev == eventOf(p)
      doc == document(p)
  IN /\ Get(doc, "executionArn") = OrNull(Get(Get(ev, "detail"), "executionArn"))
     /\ Get(doc, "stateMachineArn") = OrNull(Get(Get(ev, "detail"), "stateMachineArn"))
     /\ Get(doc, "status") = OrNull(Get(Get(ev, "detail"), "status"))
     /\ Get(doc, "time") = OrNull(Get(ev, "time"))

noFailureWithoutCause ==
  handlerState = "rejected" =>
    \/ env.system_bucket = Undefined
    \/ env.stackName = Undefined
    \/ \E p \in DOMAIN pipes : pipes[p].pc = "writeFailed"

\* C4: a record whose resolver call threw has its write issued all the
\* same, with collectionId, granules and providerId null and executionArn,
\* stateMachineArn, status and time read from the event; a record of the
\* same batch whose resolver returned the full message carries the full
\* metadata; a resolver failure alone never makes handler fail.
C4_ResolverFailureIsLocal ==
  /\ \A p \in DOMAIN pipes :
       outcomes[p] = Threw =>
         /\ putCalls[p] = 1
         /\ issued(p)
         /\ Get(document(p), "collectionId") = Null
         /\ Get(document(p), "granules") = Null
         /\ Get(document(p), "providerId") = Null
         /\ fromEvent(p)
         /\ pipes[p].pc = "written" => pipes[p].request \in store
  /\ \A p \in DOMAIN pipes :
       outcomes[p] = Returned(MsgFull) =>
         /\ Get(document(p), "collectionId") = Str("MOD09___006")
         /\ Get(document(p), "granules") = Arr(<<Str("G1"), Null>>)
         /\ Get(document(p), "providerId") = Str("prov1")
         /\ fromEvent(p)
  /\ noFailureWithoutCause

C4_Witness ==
  /\ batchSize = 3
  /\ handlerState = "resolved"
  /\ Cardinality(store) = 3
  /\ Cardinality({p \in DOMAIN pipes : outcomes[p] = Threw}) = 1
  /\ Cardinality({p \in DOMAIN pipes : outcomes[p] = Returned(MsgFull)}) = 2
  /\ \E p \in DOMAIN pipes :
       /\ outcomes[p] = Threw
       /\ Get(document(p), "executionArn") = Str("arn:exec1")

NormalizedFields ==
  {"error", "time", "status", "providerId", "collectionId", "granules",
   "executionArn", "stateMachineArn"}

\* C5: for a queue record whose unwrapped payload is no execution event the
\* resolver is never called, the written document has executionArn,
\* stateMachineArn, status, time, collectionId, granules and providerId all
\* null, and the record is written without this making handler fail.
C5_ClassificationMiss ==
  /\ \A p \in DOMAIN pipes :
       (isSQSRecordLike(recordOf(p)) /\ ~isEventBridgeEvent(eventOf(p))) =>
         /\ resolverCalls[p] = 0
         /\ outcomes[p] = Pending
         /\ pipes[p].pc # "resolving"
         /\ pipes[p].pc # "idle" =>
              /\ putCalls[p] = 1
              /\ \A f \in NormalizedFields \ {"error"} : Get(document(p), f) = Null
              /\ pipes[p].pc = "written" => pipes[p].request \in store
  /\ (handlerState = "rejected" /\ handlerError = "write")
       => \E p \in DOMAIN pipes : pipes[p].pc = "writeFailed"

C5_Witness ==
  /\ handlerState = "resolved"
  /\ \E p \in DOMAIN pipes :
       /\ isSQSRecordLike(recordOf(p))
       /\ ~isEventBridgeEvent(eventOf(p))
       /\ pipes[p].pc = "written"
       /\ pipes[p].request \in store
       /\ Get(document(p), "status") = Null

\* the queue records around a value, outermost first
RECURSIVE layersOf(_)
layersOf(x) ==
  IF HasKey(x, "body") THEN <<x>> \o layersOf(JSONParse(Get(x, "body"))) ELSE <<>>

innermost(x) ==
  LET ls == layersOf(x)
  IN IF ls = <<>> THEN x ELSE JSONParse(Get(ls[Len(ls)], "body"))

firstOf(S) == CHOOSE i \in S : \A j \in S : i <= j

\* C6 as stated: the unwrap loop ends on a payload that is no queue record,
\* and the captured error is the error field of the outermost layer that
\* has one, null when no layer has one.
C6_Original ==
  hPc = "returned" =>
    LET ls == layersOf(hIn)
        withError == {i \in 1..Len(ls) : HasKey(ls[i], "error")}
    IN /\ ~isSQSRecordLike(hoistLocals(hIn).messageBody)
       /\ hoistLocals(hIn).messageBody = innermost(hIn)
       /\ Get(hOut, "error") = IF withError = {} THEN Null
                               ELSE Get(ls[firstOf(withError)], "error")

\* C6 amended: the unwrap loop ends on a payload that is no queue record,
\* and the captured error is the error field of the outermost layer whose
\* error field is neither null nor empty, null when there is no such layer.
C6_OutermostRecordedError ==
  hPc = "returned" =>
    LET ls == layersOf(hIn)
        withError == {i \in 1..Len(ls) : Truthy(Get(ls[i], "error"))}
    IN /\ ~isSQSRecordLike(hoistLocals(hIn).messageBody)
       /\ hoistLocals(hIn).messageBody = innermost(hIn)
       /\ Get(hOut, "error") = IF withError = {} THEN Null
                               ELSE Get(ls[firstOf(withError)], "error")

C6_Witness ==
  /\ hPc = "returned"
  /\ Len(layersOf(hIn)) = 2
  /\ Get(layersOf(hIn)[1], "error") = Str("e1")
  /\ Get(layersOf(hIn)[2], "error") = Str("e2")
  /\ Get(hOut, "error") = Str("e1")

\* C7: within one invocation, any two records whose write has been issued
\* have different keys, also when the two records are identical.
C7_KeysDistinctInBatch ==
  \A p, q \in current :
    (p # q /\ issued(p) /\ issued(q)) => pipes[p].request.Key # pipes[q].request.Key

C7_Witness ==
  \E p, q \in current :
    /\ p # q
    /\ recordOf(p) = recordOf(q)
    /\ pipes[p].pc = "written"
    /\ pipes[q].pc = "written"
    /\ pipes[p].request.Body = pipes[q].request.Body
    /\ pipes[p].request.Key # pipes[q].request.Key

\* C8: the archive is append-only across invocations: a write of the
\* current invocation never has the key of a write of an earlier one, every
\* object written stays in the store, and the store holds one object per
\* successful write, so a record written in two attempts has two objects.
C8_AppendOnly ==
  /\ \A p \in DOMAIN pipes : \A q \in current :
       (p \notin current /\ issued(p) /\ issued(q))
         => pipes[p].request.Key # pipes[q].request.Key
  /\ \A p \in DOMAIN pipes : pipes[p].pc = "written" => pipes[p].request \in store
  /\ Cardinality(store) = Cardinality({p \in DOMAIN pipes : pipes[p].pc = "written"})

C8_Witness ==
  /\ batchSize = 2
  /\ Len(pipes) = 2 * batchSize
  /\ \E p \in 1..batchSize :
       /\ pipes[p].pc = "written"
       /\ pipes[p + batchSize].pc = "written"
       /\ pipes[p].request.Body = pipes[p + batchSize].request.Body
       /\ {pipes[p].request, pipes[p + batchSize].request} \subseteq store
  /\ \E p \in 1..batchSize : pipes[p].pc = "writeFailed"

\* C9: when system_bucket or stackName is not set, handler fails without
\* processing anything: no pipeline starts, the resolver and the store are
\* never called and the store stays empty.
C9_ConfigErrorBeforeProcessing ==
  (env.system_bucket = Undefined \/ env.stackName = Undefined) =>
    /\ handlerState \in {"idle", "rejected"}
    /\ handlerState = "rejected" => handlerError = "config"
    /\ \A p \in DOMAIN pipes :
         /\ pipes[p].pc = "idle"
         /\ resolverCalls[p] = 0
         /\ putCalls[p] = 0
         /\ outcomes[p] = Pending
    /\ store = {}
    /\ uuidCounter = 0

C9_Witness ==
  /\ env.stackName = Undefined
  /\ env.system_bucket # Undefined
  /\ batchSize = 3
  /\ handlerState = "rejected"
  /\ handlerError = "config"

\* C10: the record hoistCumulusMessageDetails returns has all eight
\* normalized fields on every path, each with a value or null, none absent
\* and none undefined.
C10_AllFieldsPresent ==
  hPc = "returned" =>
    /\ hOut.t = "obj"
    /\ \A f \in NormalizedFields :
         /\ f \in DOMAIN hOut.v
         /\ hOut.v[f].t # "undefined"

C10_Witness ==
  /\ hPc = "returned"
  /\ hOutcome = Returned(MsgNameOnly)
  /\ Get(hOut, "collectionId") = Null
  /\ Get(hOut, "granules") = Null
  /\ Get(hOut, "status") # Null

\* the message a direct call resolved, undefined when there is none
resolvedMessage == IF hOutcome.threw THEN Undefined ELSE hOutcome.value

hasResolved == hPc = "returned" /\ hOutcome # Pending /\ Truthy(resolvedMessage)

C12_CollectionId ==
  hPc = "returned" =>
    LET collection == Get(Get(resolvedMessage, "meta"), "collection")
        both == /\ hasResolved
                /\ HasKey(collection, "name")
                /\ HasKey(collection, "version")
    IN /\ both <=> Get(hOut, "collectionId") # Null
       /\ both => Get(hOut, "collectionId")
                    = Str(collection.v["name"].v \o "___" \o collection.v["version"].v)

C12_Witness ==
  /\ hasResolved
  /\ Get(Get(Get(resolvedMessage, "meta"), "collection"), "name") = Str("MOD09")
  /\ Get(Get(Get(resolvedMessage, "meta"), "collection"), "version") = Str("006")
  /\ Get(hOut, "collectionId") = Str("MOD09___006")

C14_PipelineOrder ==
  \A p \in DOMAIN pipes :
    /\ resolverCalls[p] <= 1
    /\ putCalls[p] <= 1
    /\ resolverCalls[p] = 1 =>
         /\ isSQSRecordLike(recordOf(p))
         /\ ~isSQSRecordLike(eventOf(p))
         /\ isEventBridgeEvent(eventOf(p))
    /\ pipes[p].pc = "resolving" <=> (resolverCalls[p] = 1 /\ outcomes[p] = Pending)
    /\ pipes[p].pc = "resolving" => putCalls[p] = 0
    /\ issued(p) <=> putCalls[p] = 1
    /\ outcomes[p] # Pending => resolverCalls[p] = 1

C14_Witness ==
  \E p \in DOMAIN pipes :
    /\ resolverCalls[p] = 1
    /\ outcomes[p] = Returned(MsgFull)
    /\ putCalls[p] = 1
    /\ pipes[p].pc = "written"
    /\ Len(layersOf(recordOf(p))) = 2

\* the key with the given date, execution token and n-th unique token
keyShape(date, token, n) ==
  Str("stack/dead-letter-archive/sqs/" \o date \o "/" \o token \o "-uuid"
      \o ToString(n) \o ".json")

\* C15: a record of the batch that is no queue record is written as it is:
\* the document is the record itself, no resolver call is made for it, and
\* the execution token of its key is "unknown" whatever fields it has.
C15_OpaqueUnmodified ==
  \A p \in DOMAIN pipes :
    ~isSQSRecordLike(recordOf(p)) =>
      /\ resolverCalls[p] = 0
      /\ outcomes[p] = Pending
      /\ pipes[p].pc # "resolving"
      /\ pipes[p].pc # "idle" =>
           /\ putCalls[p] = 1
           /\ pipes[p].request.Body = Json(recordOf(p))
           /\ DOMAIN document(p).v = DOMAIN recordOf(p).v
           /\ \E n \in 1..uuidCounter : \E d \in {"2024-02-29", "2024-03-01"} :
                pipes[p].request.Key = keyShape(d, "unknown", n)

C15_Witness ==
  \E p \in DOMAIN pipes :
    /\ ~isSQSRecordLike(recordOf(p))
    /\ HasKey(recordOf(p), "executionArn")
    /\ pipes[p].pc = "written"
    /\ pipes[p].request \in store
    /\ handlerState = "resolved"

\* C16: every key is <stackName>/dead-letter-archive/sqs/<date>/<token>-
\* <unique token>.json, the date being the UTC calendar date of the time of
\* the archived record when it has one and the processing date otherwise,
\* the token being the executionArn hoisted for a queue record when it is
\* not null and "unknown" otherwise.
C16_KeyShape ==
  \A p \in DOMAIN pipes :
    issued(p) =>
      LET time == Get(document(p), "time")
          arn == Get(document(p), "executionArn")
          date == IF Truthy(time)
                  THEN (IF time = Str("2024-02-29T23:59:59Z") THEN "2024-02-29"
                        ELSE "Invalid date")
                  ELSE (IF now = Str("2024-03-01T00:00:01Z") THEN "2024-03-01"
                        ELSE "Invalid date")
          token == IF isSQSRecordLike(recordOf(p)) /\ Truthy(arn) THEN arn.v
                   ELSE "unknown"
      IN \E n \in 1..uuidCounter : pipes[p].request.Key = keyShape(date, token, n)

C16_Witness ==
  \E p, q \in DOMAIN pipes :
    /\ pipes[p].pc = "written"
    /\ pipes[q].pc = "written"
    /\ \E n \in 1..uuidCounter :
         pipes[p].request.Key = keyShape("2024-02-29", "arn:exec1", n)
    /\ \E n \in 1..uuidCounter :
         pipes[q].request.Key = keyShape("2024-03-01", "unknown", n)
    /\ isEventBridgeEvent(eventOf(q))

\* C17: providerId is non-null only when the resolver returned a message
\* recognized as provider-bearing, and is then that message's provider
\* identifier; for any other resolved message it is null and the provider
\* getter is not called.
C17_ProviderId ==
  hPc = "returned" =>
    LET bearing == hasResolved /\ isMessageWithProvider(resolvedMessage)
        id == Get(Get(Get(resolvedMessage, "meta"), "provider"), "id")
    IN /\ Get(hOut, "providerId") # Null => bearing
       /\ bearing => Get(hOut, "providerId") = OrNull(id) /\ hGetterCalls = 1
       /\ ~bearing => Get(hOut, "providerId") = Null /\ hGetterCalls = 0

C17_Witness ==
  /\ hasResolved
  /\ ~isMessageWithProvider(resolvedMessage)
  /\ Get(Get(resolvedMessage, "meta"), "provider") = Str("prov3")
  /\ Get(hOut, "providerId") = Null
  /\ hGetterCalls = 0

\* C18: once handler has failed on a write, nothing is abandoned: no object
\* leaves the store, a record that was written stays written, and a record
\* whose lookup returns still has its write issued.
C18_FailureDoesNotAbandon ==
  [][handlerError' = "write" =>
       /\ store \subseteq store'
       /\ \A p \in DOMAIN pipes :
            /\ pipes[p].pc = "written" => pipes'[p].pc = "written"
            /\ (pipes[p].pc = "resolving" /\ pipes'[p].pc # "resolving")
                 => (pipes'[p].pc = "writing" /\ putCalls'[p] = 1)
            /\ (pipes[p].pc = "writing" /\ pipes'[p].pc = "written")
                 => pipes[p].request \in store']_vars

C18_Witness ==
  /\ handlerError = "write"
  /\ batchSize = 3
  /\ Cardinality(store) = 2
  /\ \E p, q \in DOMAIN pipes :
       /\ pipes[p].pc = "writeFailed"
       /\ ~hoistLocals(recordOf(p)).awaiting
       /\ outcomes[q] # Pending
       /\ pipes[q].pc = "written"
       /\ pipes[q].request \in store

\* C19: the record hoistCumulusMessageDetails returns has every field of
\* the input record that is not one of the eight normalized names, with its
\* value, and no other field but the eight; the input record is unchanged;
\* an input field with a normalized name (error) has the normalized value.
C19_InputPreserved ==
  [][hPc' = "returned" =>
       LET ls == layersOf(hIn)
           withError == {i \in 1..Len(ls) : Truthy(Get(ls[i], "error"))}
       IN /\ hIn' = hIn
          /\ DOMAIN hOut'.v = DOMAIN hIn.v \cup NormalizedFields
          /\ \A k \in DOMAIN hIn.v \ NormalizedFields : hOut'.v[k] = hIn.v[k]
          /\ HasKey(hIn, "error") =>
               Get(hOut', "error") = IF withError = {} THEN Null
                                     ELSE Get(ls[firstOf(withError)], "error")]_vars

C19_Witness ==
  /\ hPc = "returned"
  /\ Get(hIn, "error") = Null
  /\ Get(hOut, "error") = Str("e1")
  /\ Get(hOut, "messageId") = Get(hIn, "messageId")
  /\ Get(hOut, "body") = Get(hIn, "body")

\* C20: with both environment variables set, an invocation whose event has
\* an empty Records list or no Records at all completes successfully, with
\* no resolver call, no token drawn and no store write.
C20_EmptyBatch ==
  (env.system_bucket # Undefined /\ env.stackName # Undefined
   /\ Get(event, "Records") \in {Undefined, Arr(<<>>)}) =>
    /\ handlerState \in {"idle", "resolved"}
    /\ handlerError = "none"
    /\ pipes = <<>>
    /\ resolverCalls = <<>>
    /\ putCalls = <<>>
    /\ uuidCounter = 0
    /\ store = {}

C20_Witness ==
  /\ handlerState = "resolved"
  /\ ~HasKey(event, "Records")
  /\ store = {}

====
